---- MODULE Spec2Model ----
(***************************************************************************)
(* The hybrid search scripts of src/scripts: hybrid_rrf_search.py and      *)
(* hybrid_ranker_search.py.  A run of a script connects, prepares the      *)
(* session, embeds the query, builds the tsquery and executes one SQL      *)
(* statement whose common table expressions are evaluated one after the    *)
(* other; the rows fetched are printed.                                    *)
(*                                                                         *)
(* The datastore is read through three quantities per product: the cosine  *)
(* distance of its stored embedding to the query embedding (NULL when the  *)
(* product has no non-null embedding), the words of its name and           *)
(* description, and its ts_rank_cd score against the tsquery.              *)
(*                                                                         *)
(* SQL leaves the order of rows with equal sort keys to the executor.  A   *)
(* sort of the model draws the order of equal keys from TieOrders.         *)
(***************************************************************************)
EXTENDS Integers, Sequences, FiniteSets, TLC

----------------------------------------------------------------------------
(* Bounds of the model *)

NumProducts == 21
MaxQueryLen == 3
RerunQueryLen == 1
MaxOperatorQueryLen == 2
MaxCatalogue == 2
MaxLimit == 4
MaxSetupRuns == 2

(* Program constants *)

k == 60
BranchLimit == 20
BaseLimit == 15
RerankPoolLimit == 50
RrfOutputLimit == 10
RankerOutputLimit == 5
ClosestLimit == 5

----------------------------------------------------------------------------
(* SQL values: NULL, and a non-null value v as Some(v) *)

NULL == <<>>
Some(v) == <<v>>
Val(x) == x[1]

Coalesce(x, y) == IF x # NULL THEN x ELSE y

(* numeric arithmetic: a non-negative rational <<n, d>> in lowest terms *)

RECURSIVE GCD(_, _)
GCD(a, b) == IF b = 0 THEN a ELSE GCD(b, a % b)

Norm(n, d) == LET g == GCD(n, d) IN <<n \div g, d \div g>>

One == <<1, 1>>

Zero == <<0, 1>>

RatAdd(a, b) == Norm(a[1] * b[2] + b[1] * a[2], a[2] * b[2])
RatLess(a, b) == a[1] * b[2] < b[1] * a[2]

(* the reciprocal of the rank alone: the smoothing constant forgotten *)
RecipWithoutK(kk, rank) == IF rank = NULL THEN NULL ELSE Some(Norm(1, Val(rank)))

(* 1.0 / (k + rank), NULL when rank is NULL *)
Recip(kk, rank) == IF rank = NULL THEN NULL ELSE Some(Norm(1, kk + Val(rank)))

(* x + y of two non-null numerics *)
NumAdd(x, y) == Some(RatAdd(Val(x), Val(y)))

----------------------------------------------------------------------------
(* Sorting *)

ProductIds == [i \in 1..NumProducts |-> i]

(* a function on 1..NumProducts as a tuple of its values *)
Tabulate(f) == SubSeq(f, 1, NumProducts)

(* LIMIT n keeping n - 1 rows *)
LimitExclusive(s, n) == IF Len(s) < n THEN s ELSE SubSeq(s, 1, n - 1)

Limit(s, n) == IF Len(s) <= n THEN s ELSE SubSeq(s, 1, n)

Range(s) == {s[i] : i \in 1..Len(s)}

TieOrders == {"asc", "desc"}

(* the executor's order of two rows the sort key does not separate *)
TieBefore(to, p, q) == IF to = "asc" THEN p < q ELSE p > q

----------------------------------------------------------------------------
(* The query string and the tsquery built from it *)

Alphabet == {" ", "a", "b"}

RECURSIVE StringsUpTo(_)
StringsUpTo(n) ==
  IF n = 0 THEN {<<>>}
  ELSE LET shorter == StringsUpTo(n - 1)
       IN shorter \cup {Append(s, c) : s \in {t \in shorter : Len(t) = n - 1}, c \in Alphabet}

(* the characters of the queries that use the NOT operator of tsquery *)
OperatorAlphabet == {"a", "!"}

RECURSIVE OperatorStringsUpTo(_)
OperatorStringsUpTo(n) ==
  IF n = 0 THEN {<<>>}
  ELSE LET shorter == OperatorStringsUpTo(n - 1)
       IN shorter \cup {Append(s, c) : s \in {t \in shorter : Len(t) = n - 1},
                                        c \in OperatorAlphabet}

Queries == StringsUpTo(MaxQueryLen) \cup OperatorStringsUpTo(MaxOperatorQueryLen)

(* str.split(): the maximal runs of non-whitespace characters, in order *)
RECURSIVE SplitFrom(_, _, _)
SplitFrom(s, i, cur) ==
  IF i > Len(s) THEN (IF cur = <<>> THEN <<>> ELSE <<cur>>)
  ELSE IF s[i] = " "
       THEN (IF cur = <<>> THEN <<>> ELSE <<cur>>) \o SplitFrom(s, i + 1, <<>>)
       ELSE SplitFrom(s, i + 1, Append(cur, s[i]))

Split(s) == SplitFrom(s, 1, <<>>)

(* ' | '.join(tokens) *)
RECURSIVE JoinOr(_)
JoinOr(tokens) ==
  IF tokens = <<>> THEN <<>>
  ELSE IF Len(tokens) = 1 THEN tokens[1]
  ELSE tokens[1] \o <<" ", "|", " ">> \o JoinOr(Tail(tokens))

MakeTsquery(search_query) == JoinOr(Split(search_query))

(* to_tsquery('english', text): the terms joined by the | operator; the empty
   text gives the empty query (a NOTICE, not an error) *)
RECURSIVE LexemesFrom(_, _, _)
LexemesFrom(s, i, cur) ==
  IF i > Len(s) THEN (IF cur = <<>> THEN {} ELSE {cur})
  ELSE IF s[i] \in {" ", "|"}
       THEN (IF cur = <<>> THEN {} ELSE {cur}) \cup LexemesFrom(s, i + 1, <<>>)
       ELSE LexemesFrom(s, i + 1, Append(cur, s[i]))

ToTsquery(text) == LexemesFrom(text, 1, <<>>)

(* a term is an operand word behind any number of the NOT operator ! *)
RECURSIVE Bangs(_)
Bangs(term) == IF term # <<>> /\ Head(term) = "!" THEN 1 + Bangs(Tail(term)) ELSE 0

Operand(term) == SubSeq(term, Bangs(term) + 1, Len(term))

Negated(term) == Bangs(term) % 2 = 1

(* to_tsquery raises "syntax error in tsquery" on a term without an operand and
   on an operator that follows an operand *)
TsqueryValid(text) ==
  \A term \in ToTsquery(text) :
    /\ Operand(term) # <<>>
    /\ \A i \in 1..Len(Operand(term)) : Operand(term)[i] # "!"

----------------------------------------------------------------------------
(* The datastore *)

Products == 1..NumProducts

DistShapes == {"none", "few", "asc", "desc", "pairs"}

(* description_embedding <=> query embedding, per product *)
DistanceOf(shape) ==
  [p \in Products |->
     CASE shape = "none"  -> NULL
       [] shape = "few"   -> IF p <= 4 THEN Some(p) ELSE NULL
       [] shape = "asc"   -> Some(p)
       [] shape = "desc"  -> Some(NumProducts + 1 - p)
       [] shape = "pairs" -> Some((p + 1) \div 2)]

TextShapes == {"none", "few", "same", "rev", "split", "pairs"}

(* the words of product_name || ' ' || product_description *)
WordsOf(shape) ==
  [p \in Products |->
     CASE shape = "none"  -> {}
       [] shape = "few"   -> IF p \in {1, 5, 6} THEN {<<"a">>} ELSE {}
       [] shape = "same"  -> {<<"a">>}
       [] shape = "rev"   -> {<<"a">>}
       [] shape = "split" -> IF p % 2 = 1 THEN {<<"a">>} ELSE {<<"b">>}
       [] shape = "pairs" -> {<<"a">>, <<"b">>}]

(* ts_rank_cd of the product's text against the tsquery, when it matches *)
ScoreOf(shape) ==
  [p \in Products |->
     CASE shape = "same"  -> NumProducts + 1 - p
       [] shape = "pairs" -> (p + 1) \div 2
       [] OTHER           -> p]

(* the relevance the reranker gives a product's text for the query *)
RelevanceShapes == {"asc", "desc"}

RelevanceOf(shape) ==
  [p \in Products |-> IF shape = "asc" THEN p ELSE NumProducts + 1 - p]

----------------------------------------------------------------------------
(* State *)

(* the settings of the azure_ai extension that setup_azure_ai.py writes *)
SettingNames ==
  {"azure_openai.auth_type", "azure_openai.subscription_key", "azure_openai.endpoint",
   "azure_ml.auth_type", "azure_ml.serverless_ranking_endpoint_key",
   "azure_ml.serverless_ranking_endpoint"}

(* a database where azure_ai.set_setting was never called *)
NoSettings == [name \in SettingNames |-> NULL]

VARIABLES
  db,            \* the datastore: distance, words, score per product; extensions, indexes
  search_query,  \* the query string of the scripts
  relevance,     \* the reranker's relevance of each product's text for the query
  run,           \* the runs of the scripts: run id -> the run's variables
  gen,           \* the run of a document generator, NULL when none runs
  setup          \* the runs of setup_azure_ai.py, NULL when none runs

vars == <<db, search_query, relevance, run, gen, setup>>

Scripts == {"hybrid_rrf_search", "hybrid_ranker_search"}

(* the single-branch scripts *)
BranchScripts == {"vector_search", "keyword_search"}

NewRun(script) ==
  [script         |-> script,
   pc             |-> "setup",
   error          |-> NULL,
   session        |-> {},
   index_seen     |-> FALSE,
   embedding      |-> NULL,
   tsquery        |-> NULL,
   base_candidates |-> {},
   vector_search  |-> {},
   keyword_search |-> {},
   rrf_combined   |-> {},
   document_contents |-> <<>>,
   document_ids   |-> <<>>,
   reranked       |-> {},
   results        |-> <<>>,
   closest_items  |-> <<>>,
   printed        |-> <<>>]

InitRuns(ids) ==
  /\ \E ds \in DistShapes, ts \in TextShapes :
       db = [distance   |-> DistanceOf(ds),
             words      |-> WordsOf(ts),
             score      |-> ScoreOf(ts),
             \* the vector type of description_embedding needs the extension
             extensions |-> {"vector"},
             indexes    |-> {},
             settings   |-> NoSettings]
  /\ search_query \in Queries
  /\ run \in [ids -> {NewRun(s) : s \in Scripts}]
  \* only hybrid_ranker_search consults the reranker
  /\ \E rs \in RelevanceShapes :
       /\ relevance = RelevanceOf(rs)
       /\ (\A r \in ids : run[r].script = "hybrid_rrf_search") => rs = "asc"
  /\ gen = NULL
  /\ setup = NULL

Init == InitRuns({1})

----------------------------------------------------------------------------
(* The relations the statements read *)

(* retail.products p JOIN retail.product_description_embeddings pde
   WHERE pde.description_embedding IS NOT NULL *)
Embedded == {p \in Products : db.distance[p] # NULL}

(* pde.description_embedding <=> %(embedding)s::vector, ascending *)
Closer(p, q) == Val(db.distance[p]) < Val(db.distance[q])

(* the empty tsquery taken to match every product *)
MatchingEmptyMatchesAll(tsq) ==
  LET terms == ToTsquery(tsq)
  IN  {p \in Products :
         \/ terms = {}
         \/ \E term \in terms : (Operand(term) \in db.words[p]) # Negated(term)}

(* to_tsvector('english', name || ' ' || description) @@ to_tsquery('english', tsq) *)
Matching(tsq) ==
  LET terms == ToTsquery(tsq)
  IN  {p \in Products :
         \E term \in terms : (Operand(term) \in db.words[p]) # Negated(term)}

(* ts_rank_cd(...) DESC *)
HigherScore(p, q) == db.score[p] > db.score[q]

(* ORDER BY rrf_score ASC *)
ScoreAsc(a, b) == RatLess(a.rrf_score, b.rrf_score)

(* ORDER BY rrf_score DESC *)
ScoreDesc(a, b) == RatLess(b.rrf_score, a.rrf_score)

(* ORDER BY r.ranker_rank DESC *)
RankerRankDesc(a, b) == a.ranker_rank > b.ranker_rank

(* ORDER BY r.ranker_rank ASC *)
RankerRankAsc(a, b) == a.ranker_rank < b.ranker_rank

(* whether the ORDER BY clause ord sorts product a strictly before product b;
   rows holds, by product id, the rows the clause sorts *)
SortsBefore(ord, rows, a, b) ==
  CASE ord = "distance"         -> Closer(a, b)
    [] ord = "ts_rank_cd DESC"  -> HigherScore(a, b)
    [] ord = "relevance_score DESC, product_name" -> HigherScore(a, b)
    [] ord = "rrf_score DESC"   -> ScoreDesc(Val(rows[a]), Val(rows[b]))
    [] ord = "ranker_rank ASC"  -> RankerRankAsc(Val(rows[a]), Val(rows[b]))

(* ORDER BY ord: the product ids of S in that order, those the sort key does not
   separate in the executor's order to *)
OrderBy(S, ord, rows, to) ==
  SortSeq(SelectSeq(ProductIds, LAMBDA p : p \in S),
          LAMBDA a, b : \/ SortsBefore(ord, rows, a, b)
                        \/ (~SortsBefore(ord, rows, b, a) /\ TieBefore(to, a, b)))

(* RANK() OVER (ORDER BY ord): one more than the number of rows sorted strictly
   before x; rows with equal keys share a rank *)
RankOver(S, ord, x) == 1 + Cardinality({y \in S : SortsBefore(ord, <<>>, y, x)})

(* a branch's rows: RANK() over the whole input, then ORDER BY ... LIMIT n *)
BranchRows(input, ord, to, n) ==
  {[product_id |-> p, rank |-> RankOver(input, ord, p)] :
     p \in Range(Limit(OrderBy(input, ord, <<>>, to), n))}

(* the row of relation rel with product_id p, NULL when it has none *)
RowOf(rel, p) ==
  IF \E x \in rel : x.product_id = p
  THEN Some(CHOOSE x \in rel : x.product_id = p)
  ELSE NULL

(* the two branches appended, an item of both giving two rows *)
UnionAll(vs, ks) ==
  {[vs |-> Some(v), ks |-> NULL] : v \in vs} \cup {[vs |-> NULL, ks |-> Some(w)] : w \in ks}

(* vector_search LEFT JOIN keyword_search *)
LeftJoin(vs, ks) ==
  {[vs |-> Some(v), ks |-> RowOf(ks, v.product_id)] : v \in vs}

(* vector_search FULL OUTER JOIN keyword_search ON product_id: one row per
   product_id of either side (product_id is unique within each side) *)
FullOuterJoin(vs, ks) ==
  {[vs |-> RowOf(vs, p), ks |-> RowOf(ks, p)] :
     p \in {x.product_id : x \in vs} \cup {x.product_id : x \in ks}}

(* column f of a side of a join row: NULL when the side is missing *)
Col(side, f) == IF side = NULL THEN NULL ELSE Some(Val(side)[f])

(* COALESCE(1.0 / (k + vs.rank), 0.0) + COALESCE(1.0 / (k + ks.rank), 0.0) *)
RrfScore(j) ==
  Val(NumAdd(Coalesce(Recip(k, Col(j.vs, "rank")), Some(Zero)),
             Coalesce(Recip(k, Col(j.ks, "rank")), Some(Zero))))

(* the select list of the fusion *)
FusedRow(j) ==
  [product_id   |-> Val(Coalesce(Col(j.vs, "product_id"), Col(j.ks, "product_id"))),
   rrf_score    |-> RrfScore(j),
   vector_rank  |-> Col(j.vs, "rank"),
   keyword_rank |-> Col(j.ks, "rank")]

(* ORDER BY ord on a relation keyed by product_id: its rows in that order *)
SortedRows(rel, ord, to) ==
  LET rows  == Tabulate([p \in 1..NumProducts |-> RowOf(rel, p)])
      order == OrderBy({x.product_id : x \in rel}, ord, rows, to)
  IN  [i \in 1..Len(order) |-> Val(rows[order[i]])]

----------------------------------------------------------------------------
(* Steps common to both scripts *)

Goto(r, pc) == run' = [run EXCEPT ![r].pc = pc]

(* an exception nothing catches: the script ends with the traceback of what *)
Raise(r, what) == run' = [run EXCEPT ![r].pc = "error", ![r].error = Some(what)]

(* CREATE EXTENSION IF NOT EXISTS vector; SET hnsw.iterative_scan = strict_order *)
Setup(r) ==
  /\ run[r].pc = "setup"
  /\ run[r].script \in Scripts
  /\ db' = [db EXCEPT !.extensions = @ \cup {"vector"}]
  /\ run' = [run EXCEPT ![r].pc = "embed",
                        ![r].session = @ \cup {"hnsw.iterative_scan=strict_order"}]
  /\ UNCHANGED <<search_query, relevance, gen, setup>>

(* SELECT azure_openai.create_embeddings(...); fetchone()[0] *)
Embed(r) ==
  /\ run[r].pc = "embed"
  /\ run' = [run EXCEPT ![r].pc = IF run[r].script = "vector_search"
                                  THEN "closest_items" ELSE "tsquery",
                        ![r].embedding = Some("vector")]
  /\ UNCHANGED <<db, search_query, relevance, gen, setup>>

(* the failure of the embedding call swallowed: the script goes on without a vector *)
EmbedFailSilent(r) ==
  /\ run[r].pc = "embed"
  /\ Goto(r, IF run[r].script = "vector_search" THEN "closest_items" ELSE "tsquery")
  /\ UNCHANGED <<db, search_query, relevance, gen, setup>>

(* the embedding call raises, or returns no row: the script ends in an exception *)
EmbedFail(r) ==
  /\ run[r].pc = "embed"
  /\ Raise(r, "create_embeddings")
  /\ UNCHANGED <<db, search_query, relevance, gen, setup>>

(* tsquery = ' | '.join(search_query.split()) *)
Tokenize(r) ==
  /\ run[r].pc = "tsquery"
  /\ run' = [run EXCEPT ![r].pc = CASE run[r].script = "hybrid_rrf_search" -> "vector_search"
                                    [] run[r].script = "hybrid_ranker_search" -> "base_candidates"
                                    [] OTHER -> "closest_items",
                        ![r].tsquery = Some(MakeTsquery(search_query))]
  /\ UNCHANGED <<db, search_query, relevance, gen, setup>>

----------------------------------------------------------------------------
(* hybrid_rrf_search.py: rrf_sql *)

RrfVectorSearch(r) ==
  /\ run[r].script = "hybrid_rrf_search"
  /\ run[r].pc = "vector_search"
  /\ \E to \in TieOrders :
       run' = [run EXCEPT ![r].pc = "keyword_search",
                 ![r].vector_search = BranchRows(Embedded, "distance", to, BranchLimit)]
  /\ UNCHANGED <<db, search_query, relevance, gen, setup>>

RrfKeywordSearch(r) ==
  /\ run[r].script = "hybrid_rrf_search"
  /\ run[r].pc = "keyword_search"
  /\ TsqueryValid(Val(run[r].tsquery))
  /\ \E to \in TieOrders :
       run' = [run EXCEPT ![r].pc = "fuse",
                 ![r].keyword_search =
                    BranchRows(Matching(Val(run[r].tsquery)), "ts_rank_cd DESC", to, BranchLimit)]
  /\ UNCHANGED <<db, search_query, relevance, gen, setup>>

(* to_tsquery raises: the statement fails and the script ends in the exception *)
RrfKeywordSearchFail(r) ==
  /\ run[r].script = "hybrid_rrf_search"
  /\ run[r].pc = "keyword_search"
  /\ ~TsqueryValid(Val(run[r].tsquery))
  /\ Raise(r, "to_tsquery")
  /\ UNCHANGED <<db, search_query, relevance, gen, setup>>

(* the main SELECT: join, score, ORDER BY rrf_score DESC LIMIT 10; fetchall() *)
RrfSelect(vs, ks, to) ==
  Limit(SortedRows({FusedRow(j) : j \in FullOuterJoin(vs, ks)}, "rrf_score DESC", to),
        RrfOutputLimit)

RrfFuse(r) ==
  /\ run[r].script = "hybrid_rrf_search"
  /\ run[r].pc = "fuse"
  /\ \E to \in TieOrders :
       run' = [run EXCEPT ![r].pc = "print",
                 ![r].results = RrfSelect(run[r].vector_search, run[r].keyword_search, to)]
  /\ UNCHANGED <<db, search_query, relevance, gen, setup>>

(* for i, result in enumerate(results, 1): print(...) *)
PrintResults(r) ==
  /\ run[r].pc = "print"
  /\ run' = [run EXCEPT ![r].pc = "done",
                        ![r].printed = IF run[r].script \in Scripts
                                       THEN run[r].results ELSE run[r].closest_items]
  /\ UNCHANGED <<db, search_query, relevance, gen, setup>>

----------------------------------------------------------------------------
(* hybrid_ranker_search.py: triple_rrf_sql *)

(* (... ORDER BY distance LIMIT 15) UNION (... ORDER BY ts_rank_cd DESC LIMIT 15) *)
BaseCandidates(tsq, toV, toK) ==
  Range(Limit(OrderBy(Embedded, "distance", <<>>, toV), BaseLimit))
  \cup Range(Limit(OrderBy(Matching(tsq), "ts_rank_cd DESC", <<>>, toK), BaseLimit))

RankerBaseCandidates(r) ==
  /\ run[r].script = "hybrid_ranker_search"
  /\ run[r].pc = "base_candidates"
  /\ TsqueryValid(Val(run[r].tsquery))
  /\ \E toV \in TieOrders, toK \in TieOrders :
       run' = [run EXCEPT ![r].pc = "vector_search",
                 ![r].base_candidates = BaseCandidates(Val(run[r].tsquery), toV, toK)]
  /\ UNCHANGED <<db, search_query, relevance, gen, setup>>

(* to_tsquery raises: the statement fails and the script ends in the exception *)
RankerBaseCandidatesFail(r) ==
  /\ run[r].script = "hybrid_ranker_search"
  /\ run[r].pc = "base_candidates"
  /\ ~TsqueryValid(Val(run[r].tsquery))
  /\ Raise(r, "to_tsquery")
  /\ UNCHANGED <<db, search_query, relevance, gen, setup>>

(* FROM base_candidates bc JOIN product_description_embeddings pde ... LIMIT 20 *)
RankerVectorSearch(r) ==
  /\ run[r].script = "hybrid_ranker_search"
  /\ run[r].pc = "vector_search"
  /\ \E to \in TieOrders :
       run' = [run EXCEPT ![r].pc = "keyword_search",
                 ![r].vector_search =
                    BranchRows(run[r].base_candidates \cap Embedded, "distance", to, BranchLimit)]
  /\ UNCHANGED <<db, search_query, relevance, gen, setup>>

(* FROM base_candidates bc WHERE to_tsvector(...) @@ to_tsquery(...) ... LIMIT 20 *)
RankerKeywordSearch(r) ==
  /\ run[r].script = "hybrid_ranker_search"
  /\ run[r].pc = "keyword_search"
  /\ \E to \in TieOrders :
       run' = [run EXCEPT ![r].pc = "rrf_combined",
                 ![r].keyword_search =
                    BranchRows(run[r].base_candidates \cap Matching(Val(run[r].tsquery)),
                               "ts_rank_cd DESC", to, BranchLimit)]
  /\ UNCHANGED <<db, search_query, relevance, gen, setup>>

(* a fused row with its ROW_NUMBER() *)
WithRrfRank(x, n) ==
  [product_id   |-> x.product_id,
   rrf_score    |-> x.rrf_score,
   vector_rank  |-> x.vector_rank,
   keyword_rank |-> x.keyword_rank,
   rrf_rank     |-> n]

(* rrf_rank taken with RANK(): equal scores share a rank *)
RrfCombinedByRank(vs, ks, toW, toO) ==
  LET fused    == {FusedRow(j) : j \in FullOuterJoin(vs, ks)}
      numbered == {WithRrfRank(x, 1 + Cardinality({y \in fused : ScoreDesc(y, x)})) :
                     x \in fused}
  IN  Range(Limit(SortedRows(numbered, "rrf_score DESC", toO), RerankPoolLimit))

(* rrf_combined: the fusion with ROW_NUMBER() OVER (ORDER BY score DESC) AS
   rrf_rank, then ORDER BY rrf_score DESC LIMIT 50; toW orders equal scores in
   the window, toO in the ORDER BY *)
RrfCombined(vs, ks, toW, toO) ==
  LET window   == SortedRows({FusedRow(j) : j \in FullOuterJoin(vs, ks)}, "rrf_score DESC", toW)
      numbered == {WithRrfRank(window[i], i) : i \in 1..Len(window)}
  IN  Range(Limit(SortedRows(numbered, "rrf_score DESC", toO), RerankPoolLimit))

RankerRrfCombined(r) ==
  /\ run[r].script = "hybrid_ranker_search"
  /\ run[r].pc = "rrf_combined"
  /\ \E toW \in TieOrders, toO \in TieOrders :
       run' = [run EXCEPT ![r].pc = "reranked",
                 ![r].rrf_combined =
                    RrfCombined(run[r].vector_search, run[r].keyword_search, toW, toO)]
  /\ UNCHANGED <<db, search_query, relevance, gen, setup>>

(* azure_ai.rank(query, document_contents, document_ids): one row per position i,
   id = document_ids[i], ranked by the relevance of document_contents[i]; a
   document's text is named by the product it belongs to *)
AzureAiRank(contents, ids) ==
  {[id    |-> ids[i],
    rank  |-> 1 + Cardinality({j \in 1..Len(contents) :
                                 relevance[contents[j]] > relevance[contents[i]]}),
    score |-> relevance[contents[i]]] : i \in 1..Len(ids)}

(* ARRAY(SELECT ... FROM rrf_combined ORDER BY rrf_score DESC), as product ids *)
RrfOrderedIds(rrf, to) ==
  LET sorted == SortedRows(rrf, "rrf_score DESC", to)
  IN  Tabulate([i \in 1..NumProducts |-> IF i <= Len(sorted) THEN sorted[i].product_id ELSE 0])

(* the array of one ARRAY(SELECT ... ORDER BY rrf2.rrf_score DESC) argument *)
DocumentArray(rrf, to) == SubSeq(RrfOrderedIds(rrf, to), 1, Cardinality(rrf))

(* reranked: rrf_combined JOIN ranker_results ON rr.id = rrf.product_id::text *)
Reranked(rrf, toC, toI) ==
  LET contents == DocumentArray(rrf, toC)
      ids      == DocumentArray(rrf, toI)
      ranker_results == AzureAiRank(contents, ids)
  IN  {[product_id   |-> m[1].product_id,
        rrf_score    |-> m[1].rrf_score,
        vector_rank  |-> m[1].vector_rank,
        keyword_rank |-> m[1].keyword_rank,
        rrf_rank     |-> m[1].rrf_rank,
        ranker_rank  |-> m[2].rank,
        ranker_score |-> m[2].score] :
          m \in {x \in rrf \X ranker_results : x[2].id = x[1].product_id}}

RankerRerank(r) ==
  /\ run[r].script = "hybrid_ranker_search"
  /\ run[r].pc = "reranked"
  /\ \E toC \in TieOrders, toI \in TieOrders :
       run' = [run EXCEPT ![r].pc = "select",
                 ![r].document_contents = DocumentArray(run[r].rrf_combined, toC),
                 ![r].document_ids = DocumentArray(run[r].rrf_combined, toI),
                 ![r].reranked = Reranked(run[r].rrf_combined, toC, toI)]
  /\ UNCHANGED <<db, search_query, relevance, gen, setup>>

(* the reranker's failure swallowed: the script goes on to print no row *)
RankerRerankFailSilent(r) ==
  /\ run[r].script = "hybrid_ranker_search"
  /\ run[r].pc = "reranked"
  /\ Goto(r, "print")
  /\ UNCHANGED <<db, search_query, relevance, gen, setup>>

(* the reranker call raises: the statement fails and the script ends in an exception *)
RankerRerankFail(r) ==
  /\ run[r].script = "hybrid_ranker_search"
  /\ run[r].pc = "reranked"
  /\ Raise(r, "azure_ai.rank")
  /\ UNCHANGED <<db, search_query, relevance, gen, setup>>

(* SELECT ... FROM reranked r ORDER BY r.ranker_rank ASC LIMIT 5; fetchall() *)
RankerSelect(reranked, to) ==
  Limit(SortedRows(reranked, "ranker_rank ASC", to), RankerOutputLimit)

RankerFetch(r) ==
  /\ run[r].script = "hybrid_ranker_search"
  /\ run[r].pc = "select"
  /\ \E to \in TieOrders :
       run' = [run EXCEPT ![r].pc = "print",
                 ![r].results = RankerSelect(run[r].reranked, to)]
  /\ UNCHANGED <<db, search_query, relevance, gen, setup>>

----------------------------------------------------------------------------

Next ==
  \/ \E r \in DOMAIN run : Setup(r)
  \/ \E r \in DOMAIN run : Embed(r)
  \/ \E r \in DOMAIN run : EmbedFail(r)
  \/ \E r \in DOMAIN run : Tokenize(r)
  \/ \E r \in DOMAIN run : RrfVectorSearch(r)
  \/ \E r \in DOMAIN run : RrfKeywordSearch(r)
  \/ \E r \in DOMAIN run : RrfKeywordSearchFail(r)
  \/ \E r \in DOMAIN run : RrfFuse(r)
  \/ \E r \in DOMAIN run : RankerBaseCandidates(r)
  \/ \E r \in DOMAIN run : RankerBaseCandidatesFail(r)
  \/ \E r \in DOMAIN run : RankerVectorSearch(r)
  \/ \E r \in DOMAIN run : RankerKeywordSearch(r)
  \/ \E r \in DOMAIN run : RankerRrfCombined(r)
  \/ \E r \in DOMAIN run : RankerRerank(r)
  \/ \E r \in DOMAIN run : RankerRerankFail(r)
  \/ \E r \in DOMAIN run : RankerFetch(r)
  \/ \E r \in DOMAIN run : PrintResults(r)

Spec == Init /\ [][Next]_vars

(* The same script run a second time once the first run has ended, against the
   same datastore, query, embedding and reranker *)
InitRerun ==
  /\ InitRuns({1, 2})
  /\ run[1].script = run[2].script
  /\ Len(search_query) <= RerunQueryLen

Ended(r) == run[r].pc \in {"done", "error"}

Turn(r) == r = 1 \/ Ended(1)

NextRerun ==
  \/ \E r \in DOMAIN run : Turn(r) /\ Setup(r)
  \/ \E r \in DOMAIN run : Turn(r) /\ Embed(r)
  \/ \E r \in DOMAIN run : Turn(r) /\ EmbedFail(r)
  \/ \E r \in DOMAIN run : Turn(r) /\ Tokenize(r)
  \/ \E r \in DOMAIN run : Turn(r) /\ RrfVectorSearch(r)
  \/ \E r \in DOMAIN run : Turn(r) /\ RrfKeywordSearch(r)
  \/ \E r \in DOMAIN run : Turn(r) /\ RrfKeywordSearchFail(r)
  \/ \E r \in DOMAIN run : Turn(r) /\ RrfFuse(r)
  \/ \E r \in DOMAIN run : Turn(r) /\ RankerBaseCandidates(r)
  \/ \E r \in DOMAIN run : Turn(r) /\ RankerBaseCandidatesFail(r)
  \/ \E r \in DOMAIN run : Turn(r) /\ RankerVectorSearch(r)
  \/ \E r \in DOMAIN run : Turn(r) /\ RankerKeywordSearch(r)
  \/ \E r \in DOMAIN run : Turn(r) /\ RankerRrfCombined(r)
  \/ \E r \in DOMAIN run : Turn(r) /\ RankerRerank(r)
  \/ \E r \in DOMAIN run : Turn(r) /\ RankerRerankFail(r)
  \/ \E r \in DOMAIN run : Turn(r) /\ RankerFetch(r)
  \/ \E r \in DOMAIN run : Turn(r) /\ PrintResults(r)

SpecRerun == InitRerun /\ [][NextRerun]_vars

(* hybrid_rrf_search, then hybrid_ranker_search, on the same query and data *)
InitCompare ==
  /\ InitRuns({1, 2})
  /\ run[1].script = "hybrid_rrf_search"
  /\ run[2].script = "hybrid_ranker_search"
  /\ Len(search_query) <= RerunQueryLen

SpecCompare == InitCompare /\ [][NextRerun]_vars

----------------------------------------------------------------------------
(* vector_search.py and keyword_search.py *)

(* vector_search.py: CREATE EXTENSION IF NOT EXISTS vector; then CREATE INDEX IF
   NOT EXISTS idx_product_embeddings_hnsw begins: the statement looks the name
   up in the catalogue as its session sees it *)
VectorSetup(r) ==
  /\ run[r].pc = "setup"
  /\ run[r].script = "vector_search"
  /\ db' = [db EXCEPT !.extensions = @ \cup {"vector"}]
  /\ run' = [run EXCEPT ![r].pc = "create_index",
                        ![r].index_seen = "idx_product_embeddings_hnsw" \in db.indexes]
  /\ UNCHANGED <<search_query, relevance, gen, setup>>

(* CREATE INDEX IF NOT EXISTS ends: an index the statement saw is skipped with a
   notice, an absent one is built; then SET hnsw.iterative_scan = strict_order *)
VectorCreateIndex(r) ==
  /\ run[r].pc = "create_index"
  /\ run[r].index_seen \/ "idx_product_embeddings_hnsw" \notin db.indexes
  /\ db' = [db EXCEPT !.indexes = @ \cup {"idx_product_embeddings_hnsw"}]
  /\ run' = [run EXCEPT ![r].pc = "embed",
                        ![r].session = @ \cup {"hnsw.iterative_scan=strict_order"}]
  /\ UNCHANGED <<search_query, relevance, gen, setup>>

(* the statement did not see the index and another session created it in the
   meantime: the catalogue's unique constraint rejects the second index of the
   name, cur.execute raises and the script ends *)
VectorCreateIndexFail(r) ==
  /\ run[r].pc = "create_index"
  /\ ~run[r].index_seen
  /\ "idx_product_embeddings_hnsw" \in db.indexes
  /\ Raise(r, "CREATE INDEX")
  /\ UNCHANGED <<db, search_query, relevance, gen, setup>>

(* keyword_search.py prepares nothing: conn.autocommit = True; cur = conn.cursor() *)
KeywordSetup(r) ==
  /\ run[r].pc = "setup"
  /\ run[r].script = "keyword_search"
  /\ Goto(r, "tsquery")
  /\ UNCHANGED <<db, search_query, relevance, gen, setup>>

(* SELECT ... WHERE description_embedding IS NOT NULL ORDER BY distance LIMIT 5 *)
ClosestByDistance(to) ==
  LET order == Limit(OrderBy(Embedded, "distance", <<>>, to), ClosestLimit)
  IN  [i \in 1..Len(order) |->
         [product_id |-> order[i], cosine_distance |-> Val(db.distance[order[i]])]]

VectorQuery(r) ==
  /\ run[r].script = "vector_search"
  /\ run[r].pc = "closest_items"
  /\ \E to \in TieOrders :
       run' = [run EXCEPT ![r].pc = "print", ![r].closest_items = ClosestByDistance(to)]
  /\ UNCHANGED <<db, search_query, relevance, gen, setup>>

(* SELECT ... WHERE to_tsvector(...) @@ to_tsquery(...)
   ORDER BY relevance_score DESC, p.product_name LIMIT 5; product names are in
   the order of the product ids *)
ClosestByRelevance(tsq) ==
  LET order == Limit(OrderBy(Matching(tsq), "relevance_score DESC, product_name", <<>>, "asc"),
                     ClosestLimit)
  IN  [i \in 1..Len(order) |->
         [product_id |-> order[i], relevance_score |-> db.score[order[i]]]]

KeywordQuery(r) ==
  /\ run[r].script = "keyword_search"
  /\ run[r].pc = "closest_items"
  /\ TsqueryValid(Val(run[r].tsquery))
  /\ run' = [run EXCEPT ![r].pc = "print",
                        ![r].closest_items = ClosestByRelevance(Val(run[r].tsquery))]
  /\ UNCHANGED <<db, search_query, relevance, gen, setup>>

(* to_tsquery raises: the script ends in the exception *)
KeywordQueryFail(r) ==
  /\ run[r].script = "keyword_search"
  /\ run[r].pc = "closest_items"
  /\ ~TsqueryValid(Val(run[r].tsquery))
  /\ Raise(r, "to_tsquery")
  /\ UNCHANGED <<db, search_query, relevance, gen, setup>>

(* one run of any of the four search scripts, on a datastore with or without
   the HNSW index *)
InitScripts ==
  /\ \E ds \in DistShapes, ts \in TextShapes,
        ix \in SUBSET {"idx_product_embeddings_hnsw"} :
       db = [distance   |-> DistanceOf(ds),
             words      |-> WordsOf(ts),
             score      |-> ScoreOf(ts),
             extensions |-> {"vector"},
             indexes    |-> ix,
             settings   |-> NoSettings]
  /\ search_query \in Queries
  /\ Len(search_query) <= RerunQueryLen
  /\ run \in [{1} -> {NewRun(s) : s \in Scripts \cup BranchScripts}]
  /\ \E rs \in RelevanceShapes :
       /\ relevance = RelevanceOf(rs)
       /\ run[1].script # "hybrid_ranker_search" => rs = "asc"
  /\ gen = NULL
  /\ setup = NULL

NextScripts ==
  \/ Next
  \/ \E r \in DOMAIN run : VectorSetup(r)
  \/ \E r \in DOMAIN run : VectorCreateIndex(r)
  \/ \E r \in DOMAIN run : KeywordSetup(r)
  \/ \E r \in DOMAIN run : VectorQuery(r)
  \/ \E r \in DOMAIN run : KeywordQuery(r)
  \/ \E r \in DOMAIN run : KeywordQueryFail(r)

SpecScripts == InitScripts /\ [][NextScripts]_vars

(* two runs of the scripts at once against one database: each run is a session
   of its own, and their statements interleave in any order *)
InitConcurrent ==
  /\ \E ix \in SUBSET {"idx_product_embeddings_hnsw"} :
       db = [distance   |-> DistanceOf("few"),
             words      |-> WordsOf("few"),
             score      |-> ScoreOf("few"),
             extensions |-> {"vector"},
             indexes    |-> ix,
             settings   |-> NoSettings]
  /\ search_query \in Queries
  /\ Len(search_query) <= RerunQueryLen
  /\ run \in [{1, 2} -> {NewRun(s) : s \in Scripts \cup BranchScripts}]
  /\ relevance = RelevanceOf("asc")
  /\ gen = NULL
  /\ setup = NULL

NextConcurrent ==
  \/ NextScripts
  \/ \E r \in DOMAIN run : VectorCreateIndexFail(r)

SpecConcurrent == InitConcurrent /\ [][NextConcurrent]_vars

----------------------------------------------------------------------------
(* The document generators: generate_product_pages.py and
   generate_safety_docs_gpt4.py *)

Generators == {"generate_all_product_pages", "generate_safety_documents"}

(* the limit a generator is given: none, or a non-negative integer *)
Limits == {NULL} \cup {Some(m) : m \in 0..MaxLimit}

(* the products of the input: product_data.json, retail.products ORDER BY product_id *)
Catalogue(n) == [i \in 1..n |-> i]

(* the documents of one product, in the order the loop body writes them *)
Documents(script) ==
  IF script = "generate_safety_documents"
  THEN <<"SDS", "COMPLIANCE", "QUIRKS", "ENVIRONMENTAL">>
  ELSE <<"PAGE">>

(* if random.random() < 0.4 / < 0.3: the documents only some products get *)
Optional == {"QUIRKS", "ENVIRONMENTAL"}

NewGen(script, max_products, n, github_token) ==
  [script        |-> script,
   pc            |-> "main",
   github_token  |-> github_token,
   max_products  |-> max_products,
   catalogue     |-> Catalogue(n),
   conn          |-> "none",
   products      |-> <<>>,
   processed     |-> <<>>,
   failed        |-> {},
   stage         |-> 0,
   api_failed    |-> {},
   files         |-> <<>>,
   created_files |-> <<>>,
   pdf_count     |-> 0,
   announced     |-> NULL,
   error         |-> NULL]

(* the truth value Python gives an Optional[int] *)
Truthy(x) == x # NULL /\ Val(x) # 0

(* if max_products: products[:max_products] / LIMIT $1, else every product *)
SelectProducts(catalogue, max_products) ==
  IF Truthy(max_products) THEN Limit(catalogue, Val(max_products)) ELSE catalogue

(* the call with the error of the API passed on to the caller *)
call_github_models_api_raising(github_token, api_ok) ==
  IF ~github_token THEN NULL
  ELSE IF api_ok THEN Some("response")
  ELSE NULL

(* the text a call of the chat-completion API gives: NULL when the call raises *)
call_github_models_api(github_token, api_ok) ==
  IF ~github_token THEN NULL
  ELSE IF api_ok THEN Some("response")
  ELSE Some("Error generating content - using fallback")

generate_product_description(api_ok) ==
  IF api_ok THEN Some("response")
  ELSE Some("Premium quality product perfect for your DIY projects.")

generate_features_list(api_ok) ==
  IF api_ok THEN Some("response")
  ELSE Some("Professional-grade construction")

(* the generated texts of one document *)
Content(g, description_ok, features_ok) ==
  IF g.script = "generate_safety_documents"
  THEN <<call_github_models_api(g.github_token, description_ok)>>
  ELSE <<generate_product_description(description_ok),
         generate_features_list(features_ok)>>

(* the product the loop is at *)
Current(g) == g.products[Len(g.processed) + 1]

(* the file without the count *)
CreatedUncounted(g, file) ==
  [g EXCEPT !.files = Append(@, file),
            !.created_files = Append(@, file)]

(* created_files.append(path); pdf_count += 1, after create_pdf_document
   returned the path of the file it wrote *)
Created(g, file) ==
  [g EXCEPT !.files = Append(@, file),
            !.created_files = Append(@, file),
            !.pdf_count = @ + 1]

(* create_product_pdf: doc.build writes the page *)
Saved(g, file) == [g EXCEPT !.files = Append(@, file)]

(* the exception leaving the loop instead *)
Reraise(g, product) ==
  [g EXCEPT !.failed = @ \cup {product},
            !.pc = "raised",
            !.error = Some("product")]

(* except Exception as e: logger.error(...); continue *)
Continue(g, product) ==
  [g EXCEPT !.processed = Append(@, product),
            !.failed = @ \cup {product},
            !.stage = 0]

(* main: the GITHUB_TOKEN check, and in the safety-document generator
   asyncpg.connect, which either gives a connection or raises *)
GenMain ==
  /\ gen # NULL
  /\ gen.pc = "main"
  /\ \E connected \in BOOLEAN :
       gen' = IF ~gen.github_token
              THEN [gen EXCEPT !.pc = "raised", !.error = Some("GITHUB_TOKEN")]
              ELSE IF gen.script # "generate_safety_documents"
              THEN [gen EXCEPT !.pc = "load"]
              ELSE IF connected
              THEN [gen EXCEPT !.pc = "load", !.conn = "open"]
              ELSE [gen EXCEPT !.pc = "raised", !.error = Some("connect")]
  /\ UNCHANGED <<db, search_query, relevance, run, setup>>

(* load the products and apply the limit; conn.fetch or json.load may raise,
   and main of the safety-document generator logs the exception and re-raises *)
GenLoad ==
  /\ gen # NULL
  /\ gen.pc = "load"
  /\ \E loaded \in BOOLEAN :
       gen' = IF loaded
              THEN [gen EXCEPT !.pc = "loop",
                               !.products = SelectProducts(gen.catalogue, gen.max_products)]
              ELSE [gen EXCEPT !.pc = "raised", !.error = Some("load")]
  /\ UNCHANGED <<db, search_query, relevance, run, setup>>

(* the next document of the product the loop is at: its texts are generated and
   its PDF is written; an optional document is skipped when the draw says so *)
GenCreate ==
  /\ gen # NULL
  /\ gen.pc = "loop"
  /\ Len(gen.processed) < Len(gen.products)
  /\ gen.stage < Len(Documents(gen.script))
  /\ LET product == Current(gen)
         kind == Documents(gen.script)[gen.stage + 1]
     IN  \E wanted, description_ok, features_ok \in BOOLEAN :
           LET content == Content(gen, description_ok, features_ok)
               file == [product |-> product, kind |-> kind, content |-> content]
               api_ok == description_ok /\ (gen.script = "generate_safety_documents" \/ features_ok)
               called == [gen EXCEPT !.stage = @ + 1,
                                     !.api_failed = IF api_ok THEN @ ELSE @ \cup {<<product, kind>>}]
           IN  gen' = IF kind \in Optional /\ ~wanted
                      THEN [gen EXCEPT !.stage = @ + 1]
                      ELSE IF \E i \in DOMAIN content : content[i] = NULL
                      THEN Continue(called, product)
                      ELSE IF gen.script = "generate_safety_documents"
                      THEN Created(called, file)
                      ELSE Saved(called, file)
  /\ UNCHANGED <<db, search_query, relevance, run, setup>>

(* an exception in the body of the try (the template, create_pdf_document,
   create_product_pdf): it is logged and the loop continues *)
GenFail ==
  /\ gen # NULL
  /\ gen.pc = "loop"
  /\ Len(gen.processed) < Len(gen.products)
  /\ gen.stage < Len(Documents(gen.script))
  /\ gen' = Continue(gen, Current(gen))
  /\ UNCHANGED <<db, search_query, relevance, run, setup>>

(* the body of the try is over: progress advances and the loop goes on *)
GenAdvance ==
  /\ gen # NULL
  /\ gen.pc = "loop"
  /\ Len(gen.processed) < Len(gen.products)
  /\ gen.stage = Len(Documents(gen.script))
  /\ gen' = [gen EXCEPT !.processed = Append(@, Current(gen)), !.stage = 0]
  /\ UNCHANGED <<db, search_query, relevance, run, setup>>

(* the figure of the completion panel: 'Successfully generated {len(products)}
   product pages' / 'Created {pdf_count} PDF files' *)
Announced(g) ==
  IF g.script = "generate_safety_documents" THEN g.pdf_count ELSE Len(g.products)

(* the loop is over: the completion panel is printed *)
GenComplete ==
  /\ gen # NULL
  /\ gen.pc = "loop"
  /\ Len(gen.processed) = Len(gen.products)
  /\ gen' = [gen EXCEPT !.pc = IF gen.script = "generate_safety_documents"
                               THEN "close" ELSE "done",
                        !.announced = Some(Announced(gen))]
  /\ UNCHANGED <<db, search_query, relevance, run, setup>>

(* main of the safety-document generator: await conn.close() *)
GenClose ==
  /\ gen # NULL
  /\ gen.pc = "close"
  /\ gen' = [gen EXCEPT !.pc = "done", !.conn = "closed"]
  /\ UNCHANGED <<db, search_query, relevance, run, setup>>

InitGen ==
  /\ db = [distance |-> DistanceOf("none"), words |-> WordsOf("none"),
           score |-> ScoreOf("none"), extensions |-> {"vector"}, indexes |-> {},
             settings   |-> NoSettings]
  /\ search_query = <<>>
  /\ relevance = RelevanceOf("asc")
  /\ run = <<>>
  /\ setup = NULL
  /\ \E script \in Generators, max_products \in Limits, n \in 0..MaxCatalogue,
        github_token \in BOOLEAN :
       gen = NewGen(script, max_products, n, github_token)

NextGen ==
  \/ GenMain
  \/ GenLoad
  \/ GenCreate
  \/ GenFail
  \/ GenAdvance
  \/ GenComplete
  \/ GenClose

SpecGen == InitGen /\ [][NextGen]_vars

----------------------------------------------------------------------------
(* setup_azure_ai.py: the script that configures the azure_ai extension *)

(* the environment of a run: a variable is NULL when unset or empty *)
Envs ==
  [AZURE_OPENAI_ENDPOINT      : {NULL, Some("https://openai")},
   AZURE_OPENAI_KEY           : {NULL, Some("openai-key")},
   EMBEDDING_MODEL_DEPLOYMENT : {NULL, Some("text-embedding-3-small")},
   AZURE_ML_RANKING_ENDPOINT  : {NULL, Some("https://rerank")},
   AZURE_ML_RANKING_KEY       : {NULL, Some("ranking-key")}]

USE_MANAGED_IDENTITY(env) == env.AZURE_OPENAI_KEY = NULL

USE_RANKING_MANAGED_IDENTITY(env) == env.AZURE_ML_RANKING_KEY = NULL

(* the auth mode the script prints for a key setting *)
AuthMode(managed) == IF managed THEN "managed identity" ELSE "subscription key"

(* the azure_ai.set_setting statements of steps 2 and 2b, in order *)
SetSettings(env) ==
  (IF USE_MANAGED_IDENTITY(env)
   THEN << <<"azure_openai.auth_type", Some("managed-identity")>> >>
   ELSE << <<"azure_openai.auth_type", Some("subscription-key")>>,
           <<"azure_openai.subscription_key", env.AZURE_OPENAI_KEY>> >>)
  \o << <<"azure_openai.endpoint", env.AZURE_OPENAI_ENDPOINT>> >>
  \o (IF env.AZURE_ML_RANKING_ENDPOINT = NULL THEN <<>>
      ELSE (IF USE_RANKING_MANAGED_IDENTITY(env)
            THEN << <<"azure_ml.auth_type", Some("managed-identity")>> >>
            ELSE << <<"azure_ml.serverless_ranking_endpoint_key", env.AZURE_ML_RANKING_KEY>> >>)
           \o << <<"azure_ml.serverless_ranking_endpoint", env.AZURE_ML_RANKING_ENDPOINT>> >>)

(* the exceptions the handlers tell apart *)
ErrorKinds == {"psycopg2.Error", "Exception"}

NewSetup(env, runs) ==
  [pc        |-> "env",
   runs      |-> runs,
   env       |-> env,
   conn      |-> "none",
   cur       |-> "none",
   statement |-> 1,
   failures  |-> {},
   error     |-> NULL,
   output    |-> {},
   closed    |-> {},
   exit_code |-> NULL]

(* no run of the script yet *)
IdleSetup == [NewSetup(CHOOSE env \in Envs : \A name \in DOMAIN env : env[name] = NULL, 0)
                EXCEPT !.pc = "exited"]

(* the close that leaves its object as it is *)
CloseNothing(object) == object

(* cur.close() / conn.close() of an object that exists *)
Close(object) == IF object = "none" THEN "none" ELSE "closed"

(* a statement of the try body raises: control goes to the except clauses *)
Raised(s, step, kind) ==
  [s EXCEPT !.pc = "except", !.error = Some(kind), !.failures = @ \cup {step}]

(* an inner except clause prints its warning and the script goes on *)
Warned(s, step, next) ==
  [s EXCEPT !.pc = next, !.failures = @ \cup {step},
            !.output = @ \cup {<<"warning", step>>}]

(* a step of the try body: it succeeds, or it raises; an inner try/except
   around the step turns the exception into a warning line *)
Attempt(step, next, guarded, applies) ==
  /\ setup # NULL
  /\ setup.pc = step
  /\ \E ok \in BOOLEAN, kind \in ErrorKinds :
       setup' = IF ok \/ ~applies THEN [setup EXCEPT !.pc = next]
                ELSE IF guarded THEN Warned(setup, step, next)
                ELSE Raised(setup, step, kind)
  /\ UNCHANGED <<db, search_query, relevance, run, gen>>

(* a run starts: the environment is read and the required variables checked;
   sys.exit(1) before the try when one is missing *)
SetupStart ==
  /\ setup # NULL
  /\ setup.pc = "exited"
  /\ setup.runs < MaxSetupRuns
  /\ \E env \in Envs :
       setup' = IF env.AZURE_OPENAI_ENDPOINT = NULL \/ env.EMBEDDING_MODEL_DEPLOYMENT = NULL
                THEN [NewSetup(env, setup.runs + 1) EXCEPT
                        !.pc = "exited", !.exit_code = Some(1),
                        !.output = {<<"error", "environment variable is required">>}]
                ELSE [NewSetup(env, setup.runs + 1) EXCEPT !.pc = "connect"]
  /\ UNCHANGED <<db, search_query, relevance, run, gen>>

(* conn = psycopg2.connect(...); cur = conn.cursor(): either may raise *)
SetupConnect ==
  /\ setup # NULL
  /\ setup.pc = "connect"
  /\ \E outcome \in {"cursor", "no cursor", "no connection"}, kind \in ErrorKinds :
       setup' = IF outcome = "cursor"
                THEN [setup EXCEPT !.pc = "extension", !.conn = "open", !.cur = "open"]
                ELSE IF outcome = "no cursor"
                THEN [Raised(setup, "cursor", kind) EXCEPT !.conn = "open"]
                ELSE Raised(setup, "connect", kind)
  /\ UNCHANGED <<db, search_query, relevance, run, gen>>

(* 1. CREATE EXTENSION IF NOT EXISTS azure_ai *)
SetupCreateExtension ==
  /\ setup # NULL
  /\ setup.pc = "extension"
  /\ \E ok \in BOOLEAN, kind \in ErrorKinds :
       IF ok
       THEN /\ db' = [db EXCEPT !.extensions = @ \cup {"azure_ai"}]
            /\ setup' = [setup EXCEPT !.pc = "set_setting"]
       ELSE /\ db' = db
            /\ setup' = Raised(setup, "extension", kind)
  /\ UNCHANGED <<search_query, relevance, run, gen>>

(* 2, 2b. the next azure_ai.set_setting statement; autocommit keeps the
   settings of the statements before one that raises *)
SetupSetSetting ==
  /\ setup # NULL
  /\ setup.pc = "set_setting"
  /\ LET statements == SetSettings(setup.env)
         setting == statements[setup.statement]
     IN  \E ok \in BOOLEAN, kind \in ErrorKinds :
           IF ok
           THEN /\ db' = [db EXCEPT !.settings[setting[1]] = setting[2]]
                /\ setup' = [setup EXCEPT
                               !.statement = @ + 1,
                               !.pc = IF setup.statement = Len(statements)
                                      THEN "get_setting" ELSE "set_setting"]
           ELSE /\ db' = db
                /\ setup' = Raised(setup, "set_setting", kind)
  /\ UNCHANGED <<search_query, relevance, run, gen>>

(* 3. azure_ai.get_setting of the OpenAI auth type and endpoint *)
SetupGetSetting == Attempt("get_setting", "ranking_settings", FALSE, TRUE)

(* 3. the reranker settings are read back inside try/except Exception *)
SetupRankingSettings ==
  Attempt("ranking_settings", "create_embeddings", TRUE,
          setup.env.AZURE_ML_RANKING_ENDPOINT # NULL)

(* 4. the test call of azure_openai.create_embeddings, inside try/except *)
SetupTestEmbeddings == Attempt("create_embeddings", "rank", TRUE, TRUE)

(* 4b. the test call of azure_ai.rank, inside try/except *)
SetupTestRank ==
  Attempt("rank", "functions", TRUE, setup.env.AZURE_ML_RANKING_ENDPOINT # NULL)

(* the listing with its exception passed on to the outer handlers *)
SetupListFunctionsUnguarded == Attempt("functions", "summary", FALSE, TRUE)

(* 5. the azure_ai functions are listed, inside try/except Exception *)
SetupListFunctions == Attempt("functions", "summary", TRUE, TRUE)

(* CONFIGURATION SUMMARY: the auth modes are printed from the environment *)
SetupSummary ==
  /\ setup # NULL
  /\ setup.pc = "summary"
  /\ setup' = [setup EXCEPT
       !.pc = "finally",
       !.exit_code = Some(0),
       !.output = @ \cup
         {<<"summary", "Azure OpenAI", AuthMode(USE_MANAGED_IDENTITY(setup.env))>>,
          <<"summary", "Cohere Reranker",
            IF setup.env.AZURE_ML_RANKING_ENDPOINT = NULL THEN "Not configured"
            ELSE AuthMode(USE_RANKING_MANAGED_IDENTITY(setup.env))>>}]
  /\ UNCHANGED <<db, search_query, relevance, run, gen>>

(* except psycopg2.Error / except Exception: the message and sys.exit(1) *)
SetupExcept ==
  /\ setup # NULL
  /\ setup.pc = "except"
  /\ setup' = [setup EXCEPT
       !.pc = "finally",
       !.exit_code = Some(1),
       !.output = @ \cup {IF setup.error = Some("psycopg2.Error")
                          THEN <<"error", "Error connecting to PostgreSQL">>
                          ELSE <<"error", "Unexpected error">>}]
  /\ UNCHANGED <<db, search_query, relevance, run, gen>>

(* finally: if 'cur' in locals(): cur.close(); if 'conn' in locals():
   conn.close(); print("Connection closed.") *)
SetupFinally ==
  /\ setup # NULL
  /\ setup.pc = "finally"
  /\ setup' = [setup EXCEPT
       !.pc = "exited",
       !.cur = Close(@),
       !.conn = Close(@),
       !.closed = {object \in {"cur", "conn"} : setup[object] # "none"},
       !.output = @ \cup {<<"closed", "Connection closed.">>}]
  /\ UNCHANGED <<db, search_query, relevance, run, gen>>

InitSetup ==
  /\ db = [distance |-> DistanceOf("none"), words |-> WordsOf("none"),
           score |-> ScoreOf("none"), extensions |-> {"vector"}, indexes |-> {},
           settings |-> NoSettings]
  /\ search_query = <<>>
  /\ relevance = RelevanceOf("asc")
  /\ run = <<>>
  /\ gen = NULL
  /\ setup = IdleSetup

NextSetup ==
  \/ SetupStart
  \/ SetupConnect
  \/ SetupCreateExtension
  \/ SetupSetSetting
  \/ SetupGetSetting
  \/ SetupRankingSettings
  \/ SetupTestEmbeddings
  \/ SetupTestRank
  \/ SetupListFunctions
  \/ SetupSummary
  \/ SetupExcept
  \/ SetupFinally

SpecSetup == InitSetup /\ [][NextSetup]_vars

----------------------------------------------------------------------------
(* Properties *)

Runs == DOMAIN run

BranchIds(rel) == {x.product_id : x \in rel}

(* the rank a branch gave product p, NULL when the branch did not return it *)
BranchRank(rel, p) == Col(RowOf(rel, p), "rank")

(* the product ids of the fused set of run r *)
FusedIds(r) == BranchIds(run[r].vector_search) \cup BranchIds(run[r].keyword_search)

(* n/d = 1/(k + a) + 1/(k + b), a missing rank contributing 0 *)
IsRrfSum(score, vr, kr) ==
  CASE vr # NULL /\ kr # NULL ->
         score[1] * (k + Val(vr)) * (k + Val(kr))
           = score[2] * ((k + Val(vr)) + (k + Val(kr)))
    [] vr # NULL /\ kr = NULL -> score[1] * (k + Val(vr)) = score[2]
    [] vr = NULL /\ kr # NULL -> score[1] * (k + Val(kr)) = score[2]
    [] OTHER -> FALSE

(* a >= b for two scores *)
ScoreGeq(a, b) == a[1] * b[2] >= b[1] * a[2]

ScoreOfBranches(r, x) ==
  /\ x.vector_rank = BranchRank(run[r].vector_search, x.product_id)
  /\ x.keyword_rank = BranchRank(run[r].keyword_search, x.product_id)
  /\ IsRrfSum(x.rrf_score, x.vector_rank, x.keyword_rank)

(* C1: every fused row's rrf_score is 1/(k + vector_rank) + 1/(k + keyword_rank)
   over the branches that returned the item, a branch that did not return it
   contributing 0, in the rows of hybrid_rrf_search and in rrf_combined and the
   rows of hybrid_ranker_search *)
C1_ScoreIsSumOfContributions ==
  \A r \in Runs :
    /\ \A i \in 1..Len(run[r].results) : ScoreOfBranches(r, run[r].results[i])
    /\ \A x \in run[r].rrf_combined : ScoreOfBranches(r, x)

(* a finished run that printed an item of both branches and an item of one *)
C1_Witness ==
  \E r \in Runs :
    /\ run[r].pc = "done"
    /\ \E i, j \in 1..Len(run[r].printed) :
         /\ run[r].printed[i].vector_rank # NULL
         /\ run[r].printed[i].keyword_rank # NULL
         /\ run[r].printed[j].vector_rank = NULL
         /\ run[r].printed[j].keyword_rank # NULL

(* C2: rrf_rank is a strict total order over the fused set: one row per fused
   item id, no two rows with the same rrf_rank, the ranks being 1..|fused set| *)
C2_RrfRankIsStrictTotalOrder ==
  \A r \in Runs :
    (/\ run[r].script = "hybrid_ranker_search"
     /\ run[r].pc \in {"reranked", "select", "print", "done"}) =>
      LET F == run[r].rrf_combined
      IN  /\ BranchIds(F) = FusedIds(r)
          /\ \A x, y \in F : x.product_id = y.product_id => x = y
          /\ \A x, y \in F : x.rrf_rank = y.rrf_rank => x = y
          /\ {x.rrf_rank : x \in F} = 1..Cardinality(FusedIds(r))

(* a fused set in which two items have equal rrf_score *)
C2_Witness ==
  \E r \in Runs :
    /\ run[r].pc = "reranked"
    /\ \E x, y \in run[r].rrf_combined :
         x.product_id # y.product_id /\ x.rrf_score = y.rrf_score

(* C3: rrf_score does not increase with rrf_rank, and the rows printed by
   hybrid_rrf_search are in non-increasing rrf_score order *)
C3_ScoreNonIncreasingInRank ==
  \A r \in Runs :
    /\ \A x, y \in run[r].rrf_combined :
         x.rrf_rank < y.rrf_rank => ScoreGeq(x.rrf_score, y.rrf_score)
    /\ run[r].script = "hybrid_rrf_search" =>
         \A i, j \in 1..Len(run[r].printed) :
           i < j => ScoreGeq(run[r].printed[i].rrf_score, run[r].printed[j].rrf_score)

(* hybrid_rrf_search printed rows of different scores *)
C3_Witness ==
  \E r \in Runs :
    /\ run[r].script = "hybrid_rrf_search"
    /\ run[r].pc = "done"
    /\ \E i, j \in 1..Len(run[r].printed) :
         run[r].printed[i].rrf_score # run[r].printed[j].rrf_score

(* C4: two runs of the same script with the same query, data, embedding and
   reranker answers print the same rows in the same order *)
C4_RerunPrintsSameRows ==
  (run[1].pc = "done" /\ run[2].pc = "done") => run[1].printed = run[2].printed

Min(a, b) == IF a <= b THEN a ELSE b

(* the rows of the fusion that run r holds *)
HasARank(x) == x.vector_rank # NULL \/ x.keyword_rank # NULL

KeepsBothRanks(r, x) ==
  (/\ x.product_id \in BranchIds(run[r].vector_search)
   /\ x.product_id \in BranchIds(run[r].keyword_search)) =>
     (x.vector_rank # NULL /\ x.keyword_rank # NULL)

(* C5: every fused candidate has a vector_rank or a keyword_rank, an item of
   both branches is one row holding both ranks, and every rrf_score is > 0 *)
C5_CandidateHasRankAndPositiveScore ==
  \A r \in Runs :
    /\ \A i \in 1..Len(run[r].results) :
         LET x == run[r].results[i]
         IN  /\ HasARank(x) /\ KeepsBothRanks(r, x)
             /\ x.rrf_score[1] > 0 /\ x.rrf_score[2] > 0
             /\ \A j \in 1..Len(run[r].results) :
                  run[r].results[j].product_id = x.product_id => j = i
    /\ \A x \in run[r].rrf_combined :
         /\ HasARank(x) /\ KeepsBothRanks(r, x)
         /\ x.rrf_score[1] > 0 /\ x.rrf_score[2] > 0
         /\ \A y \in run[r].rrf_combined : y.product_id = x.product_id => y = x

(* a printed item of both branches beside a printed item of the dense branch alone *)
C5_Witness ==
  \E r \in Runs :
    /\ run[r].pc = "done"
    /\ \E i, j \in 1..Len(run[r].printed) :
         /\ run[r].printed[i].vector_rank # NULL
         /\ run[r].printed[i].keyword_rank # NULL
         /\ run[r].printed[j].vector_rank # NULL
         /\ run[r].printed[j].keyword_rank = NULL

OutputLimit(r) ==
  IF run[r].script = "hybrid_rrf_search" THEN RrfOutputLimit ELSE RankerOutputLimit

(* C6: a run that ends normally returns min(N, number of distinct fused
   candidates) rows, N = 10 in hybrid_rrf_search and 5 in hybrid_ranker_search,
   no item twice *)
C6_RowCountIsMinOfLimitAndCandidates ==
  \A r \in Runs :
    run[r].pc = "done" =>
      /\ Len(run[r].printed) = Min(OutputLimit(r), Cardinality(FusedIds(r)))
      /\ \A i, j \in 1..Len(run[r].printed) :
           run[r].printed[i].product_id = run[r].printed[j].product_id => i = j

(* fewer candidates than N, all of them returned *)
C6_Witness ==
  \E r \in Runs :
    /\ run[r].pc = "done"
    /\ Len(run[r].printed) \in 1..(OutputLimit(r) - 1)
    /\ Len(run[r].printed) = Cardinality(FusedIds(r))

(* X has a rank wherever Y has one, never a worse one, and a better one somewhere *)
NoWorse(x, y) == y # NULL => (x # NULL /\ Val(x) <= Val(y))
Better(x, y) == x # NULL /\ (y = NULL \/ Val(x) < Val(y))

Dominates(vr, kr, p, q) ==
  /\ NoWorse(vr[p], vr[q]) /\ NoWorse(kr[p], kr[q])
  /\ (Better(vr[p], vr[q]) \/ Better(kr[p], kr[q]))

ScoreGreater(a, b) == a[1] * b[2] > b[1] * a[2]

(* C7: an item that dominates another in the branch ranks has the strictly
   greater rrf_score and comes before it in the RRF order: earlier in the rows of
   hybrid_rrf_search, smaller rrf_rank in hybrid_ranker_search *)
C7_DominanceInRrfOrder ==
  \A r \in Runs :
    LET vr  == Tabulate([p \in 1..NumProducts |-> BranchRank(run[r].vector_search, p)])
        kr  == Tabulate([p \in 1..NumProducts |-> BranchRank(run[r].keyword_search, p)])
        out == run[r].results
        at  == Tabulate([p \in 1..NumProducts |->
                 IF \E i \in 1..Len(out) : out[i].product_id = p
                 THEN Some(CHOOSE i \in 1..Len(out) : out[i].product_id = p) ELSE NULL])
        rrf == Tabulate([p \in 1..NumProducts |-> RowOf(run[r].rrf_combined, p)])
    IN  \A p, q \in FusedIds(r) :
          Dominates(vr, kr, p, q) =>
            /\ (run[r].script = "hybrid_rrf_search" /\ run[r].pc \in {"print", "done"}
                /\ at[q] # NULL) =>
                  /\ at[p] # NULL
                  /\ Val(at[p]) < Val(at[q])
                  /\ ScoreGreater(out[Val(at[p])].rrf_score, out[Val(at[q])].rrf_score)
            /\ (run[r].script = "hybrid_ranker_search"
                /\ run[r].pc \in {"reranked", "select", "print", "done"}) =>
                  /\ Val(rrf[p]).rrf_rank < Val(rrf[q]).rrf_rank
                  /\ ScoreGreater(Val(rrf[p]).rrf_score, Val(rrf[q]).rrf_score)

(* X with vector_rank 1 and keyword_rank 3 printed before Y with vector_rank 2 only *)
C7_Witness ==
  \E r \in Runs :
    /\ run[r].pc = "done"
    /\ run[r].script = "hybrid_rrf_search"
    /\ \E i, j \in 1..Len(run[r].printed) :
         /\ i < j
         /\ run[r].printed[i].vector_rank = Some(1)
         /\ run[r].printed[i].keyword_rank = Some(3)
         /\ run[r].printed[j].vector_rank = Some(2)
         /\ run[r].printed[j].keyword_rank = NULL

(* the query splits into no token: the empty string or whitespace alone *)
EmptyTokens == Split(search_query) = <<>>

(* row x of run r is an item of the dense branch alone: its vector_rank is the
   branch's, its keyword_rank is unset and its rrf_score is 1/(k + vector_rank) *)
DenseOnlyRow(r, x) ==
  /\ x.product_id \in BranchIds(run[r].vector_search)
  /\ x.vector_rank = BranchRank(run[r].vector_search, x.product_id)
  /\ x.keyword_rank = NULL
  /\ x.rrf_score[1] * (k + Val(x.vector_rank)) = x.rrf_score[2]

(* row x of run r is an item of the sparse branch alone *)
SparseOnlyRow(r, x) ==
  /\ x.product_id \in BranchIds(run[r].keyword_search)
  /\ x.keyword_rank = BranchRank(run[r].keyword_search, x.product_id)
  /\ x.vector_rank = NULL
  /\ x.rrf_score[1] * (k + Val(x.keyword_rank)) = x.rrf_score[2]

PrintedIds(r) == {run[r].printed[i].product_id : i \in 1..Len(run[r].printed)}

(* C8 as stated: with a query of no tokens the tsquery is the empty string, the
   sparse branch is empty, and the final ranking is exactly the dense branch's
   items, each with keyword_rank unset and rrf_score = 1/(k + vector_rank) *)
C8_EmptyQueryPrintsWholeDenseBranch ==
  EmptyTokens =>
    \A r \in Runs :
      /\ run[r].tsquery \in {NULL, Some(<<>>)}
      /\ run[r].keyword_search = {}
      /\ run[r].pc = "done" =>
           /\ PrintedIds(r) = BranchIds(run[r].vector_search)
           /\ \A i \in 1..Len(run[r].printed) : DenseOnlyRow(r, run[r].printed[i])

(* C8: with a query of no tokens the tsquery is the empty string, the sparse
   branch returns no row, and the final ranking is min(N, size of the dense
   branch) distinct items of the dense branch, each with keyword_rank unset and
   rrf_score = 1/(k + vector_rank) *)
C8_EmptyQueryRanksDenseOnly ==
  EmptyTokens =>
    \A r \in Runs :
      /\ run[r].tsquery \in {NULL, Some(<<>>)}
      /\ run[r].keyword_search = {}
      /\ run[r].pc = "done" =>
           /\ Len(run[r].printed)
                = Min(OutputLimit(r), Cardinality(run[r].vector_search))
           /\ Cardinality(PrintedIds(r)) = Len(run[r].printed)
           /\ \A i \in 1..Len(run[r].printed) : DenseOnlyRow(r, run[r].printed[i])

(* a whitespace-only query whose run printed N rows of a larger dense branch *)
C8_Witness ==
  /\ EmptyTokens
  /\ search_query # <<>>
  /\ \E r \in Runs :
       /\ run[r].pc = "done"
       /\ run[r].tsquery = Some(<<>>)
       /\ Len(run[r].printed) = OutputLimit(r)
       /\ Cardinality(run[r].vector_search) > OutputLimit(r)

(* C9 as stated: with no embedding in the catalogue the dense branch is empty
   and the output is the sparse branch's top items, each with vector_rank unset
   and rrf_score = 1/(k + keyword_rank), in keyword_rank order *)
C9_NoEmbeddingPrintsInKeywordRankOrder ==
  Embedded = {} =>
    \A r \in Runs :
      /\ run[r].vector_search = {}
      /\ run[r].pc = "done" =>
           /\ \A i \in 1..Len(run[r].printed) : SparseOnlyRow(r, run[r].printed[i])
           /\ \A i, j \in 1..Len(run[r].printed) :
                i < j => Val(run[r].printed[i].keyword_rank)
                           <= Val(run[r].printed[j].keyword_rank)

(* the sparse items that run r did not print *)
UnprintedSparse(r) == {x \in run[r].keyword_search : x.product_id \notin PrintedIds(r)}

(* C9: with no embedding in the catalogue the dense branch is empty and the
   output is min(N, size of the sparse branch) distinct items of the sparse
   branch, each with vector_rank unset and rrf_score = 1/(k + keyword_rank);
   hybrid_rrf_search prints the branch's top items in keyword_rank order,
   hybrid_ranker_search prints the reranker's choice in reranker order *)
C9_NoEmbeddingRanksSparseOnly ==
  Embedded = {} =>
    \A r \in Runs :
      /\ run[r].vector_search = {}
      /\ run[r].pc = "done" =>
           /\ Len(run[r].printed)
                = Min(OutputLimit(r), Cardinality(run[r].keyword_search))
           /\ Cardinality(PrintedIds(r)) = Len(run[r].printed)
           /\ \A i \in 1..Len(run[r].printed) : SparseOnlyRow(r, run[r].printed[i])
           /\ run[r].script = "hybrid_rrf_search" =>
                /\ \A i, j \in 1..Len(run[r].printed) :
                     i < j => Val(run[r].printed[i].keyword_rank)
                                <= Val(run[r].printed[j].keyword_rank)
                /\ \A x \in UnprintedSparse(r) : \A i \in 1..Len(run[r].printed) :
                     x.rank >= Val(run[r].printed[i].keyword_rank)
           /\ run[r].script = "hybrid_ranker_search" =>
                \A i, j \in 1..Len(run[r].printed) :
                  i < j => run[r].printed[i].ranker_rank < run[r].printed[j].ranker_rank

(* no embedding, and N rows printed of a larger sparse branch *)
C9_Witness ==
  /\ Embedded = {}
  /\ \E r \in Runs :
       /\ run[r].pc = "done"
       /\ Len(run[r].printed) = OutputLimit(r)
       /\ Cardinality(run[r].keyword_search) > OutputLimit(r)
       /\ \E i, j \in 1..Len(run[r].printed) :
            run[r].printed[i].keyword_rank # run[r].printed[j].keyword_rank

(* the fused rows of run r, from its two branches *)
FusedRows(r) ==
  {FusedRow(j) : j \in FullOuterJoin(run[r].vector_search, run[r].keyword_search)}

(* C10: the output is the top N rows by final rank. In hybrid_ranker_search the
   rows are in strictly ascending reranker rank and are the 5 best-ranked of the
   fused candidates submitted to the reranker (all of them when fewer); in
   hybrid_rrf_search the rows are the 10 best of the fused set in RRF order *)
C10_OutputIsTopNByFinalRank ==
  \A r \in Runs :
    run[r].pc \in {"print", "done"} =>
      LET out == run[r].results
          ids == {out[i].product_id : i \in 1..Len(out)}
      IN  /\ run[r].pc = "done" => run[r].printed = out
          /\ run[r].script = "hybrid_ranker_search" =>
               /\ BranchIds(run[r].reranked) = BranchIds(run[r].rrf_combined)
               /\ Len(out) = Min(RankerOutputLimit, Cardinality(run[r].reranked))
               /\ \A i \in 1..Len(out) : out[i] \in run[r].reranked
               /\ \A i, j \in 1..Len(out) :
                    i < j => out[i].ranker_rank < out[j].ranker_rank
               /\ \A x \in run[r].reranked :
                    x.product_id \notin ids =>
                      \A i \in 1..Len(out) : out[i].ranker_rank < x.ranker_rank
          /\ run[r].script = "hybrid_rrf_search" =>
               /\ Len(out) = Min(RrfOutputLimit, Cardinality(FusedRows(r)))
               /\ \A i \in 1..Len(out) : out[i] \in FusedRows(r)
               /\ \A i \in 1..(Len(out) - 1) :
                    ~RatLess(out[i].rrf_score, out[i + 1].rrf_score)
               /\ \A x \in FusedRows(r) :
                    x.product_id \notin ids =>
                      \A i \in 1..Len(out) : ~RatLess(out[i].rrf_score, x.rrf_score)

(* hybrid_ranker_search printed 5 of more candidates, in an order that is not
   the RRF order *)
C10_Witness ==
  \E r \in Runs :
    /\ run[r].script = "hybrid_ranker_search"
    /\ run[r].pc = "done"
    /\ Len(run[r].printed) = RankerOutputLimit
    /\ Cardinality(run[r].reranked) > RankerOutputLimit
    /\ \E i, j \in 1..Len(run[r].printed) :
         i < j /\ run[r].printed[i].rrf_rank > run[r].printed[j].rrf_rank

(* run r ended in the exception of a failed reranker call *)
RerankFailed(r) ==
  /\ run[r].script = "hybrid_ranker_search"
  /\ run[r].error = Some("azure_ai.rank")

(* C11: a failure of the rerank step is reported, never mistaken for "no
   results": the run ends in an error without printing a result list, and a run
   that ends normally prints rows whenever the fusion had candidates *)
C11_RerankFailureIsReported ==
  \A r \in Runs :
    /\ RerankFailed(r) => (run[r].results = <<>> /\ run[r].printed = <<>>)
    /\ (run[r].script = "hybrid_ranker_search" /\ run[r].pc \in {"print", "done"}) =>
         (run[r].rrf_combined # {} => run[r].results # <<>>)

(* the reranker failed on a fusion that had candidates *)
C11_Witness ==
  \E r \in Runs : RerankFailed(r) /\ run[r].rrf_combined # {}

(* the sparse branch of run r failed: its to_tsquery raised *)
SparseFailed(r) == run[r].error = Some("to_tsquery")

(* C12: when the sparse branch fails and the dense branch has items to give, the
   run still outputs ranked items, every one of them from the dense branch *)
C12_OneBranchFailureKeepsOtherBranch ==
  \A r \in Runs :
    (SparseFailed(r) /\ Embedded # {}) =>
      /\ run[r].printed # <<>>
      /\ \A i \in 1..Len(run[r].printed) : run[r].printed[i].product_id \in Embedded

(* C13: a generator given a limit processes at most that many products, for
   every limit including 0 *)
C13_ProcessedAtMostLimit ==
  (gen # NULL /\ gen.max_products # NULL) =>
    Len(gen.processed) <= Val(gen.max_products)

(* the ranks of a branch's rows are 1..n, no rank twice *)
RanksArePositions(rel) ==
  /\ {x.rank : x \in rel} = 1..Cardinality(rel)
  /\ \A x, y \in rel : x.rank = y.rank => x = y

(* C14: in each branch the rank is the item's 1-based position: the ranks of a
   branch of n items are exactly 1..n, no two items sharing a rank, also when
   items have equal distance or equal keyword score *)
C14_BranchRanksArePositions ==
  \A r \in Runs :
    /\ RanksArePositions(run[r].vector_search)
    /\ RanksArePositions(run[r].keyword_search)

(* run r has evaluated its dense branch *)
DenseEvaluated(r) ==
  run[r].pc \in {"keyword_search", "fuse", "rrf_combined", "reranked", "select",
                 "print", "done"}

(* fewer than BranchLimit embedded products are strictly closer to the query than p *)
InGlobalTop(p) ==
  /\ p \in Embedded
  /\ Cardinality({q \in Embedded : Closer(q, p)}) < BranchLimit

(* C15: in both scripts the dense branch is the min(20, number of embedded
   items) items globally closest to the query vector; no item outside the global
   top 20 by distance receives a vector_rank *)
C15_DenseBranchIsGlobalTop ==
  \A r \in Runs :
    DenseEvaluated(r) =>
      /\ Cardinality(run[r].vector_search) = Min(BranchLimit, Cardinality(Embedded))
      /\ \A x \in run[r].vector_search : InGlobalTop(x.product_id)

(* a row of rrf_combined without its rrf_rank: the fusion values of the item *)
FusionValues(x) ==
  [product_id   |-> x.product_id,
   rrf_score    |-> x.rrf_score,
   vector_rank  |-> x.vector_rank,
   keyword_rank |-> x.keyword_rank]

(* C16: for the same query and data the fused candidates of
   hybrid_ranker_search (ids with vector_rank, keyword_rank and rrf_score) are
   those of hybrid_rrf_search before its LIMIT, and every output row of
   hybrid_ranker_search carries its item's fusion values *)
C16_RankerFusionEqualsRrfFusion ==
  (/\ run[1].script = "hybrid_rrf_search" /\ run[1].pc = "done"
   /\ run[2].script = "hybrid_ranker_search" /\ run[2].pc = "done") =>
     /\ {FusionValues(x) : x \in run[2].rrf_combined} = FusedRows(1)
     /\ \A i \in 1..Len(run[2].printed) :
          FusionValues(run[2].printed[i]) \in FusedRows(1)

(* C17: the documents sent to the reranker are the fused candidates in
   rrf_score-descending order, and for every position i document_ids[i] and
   document_contents[i] belong to the same item, also when candidates have equal
   rrf_score *)
C17_DocumentIdsPairedWithContents ==
  \A r \in Runs :
    (run[r].script = "hybrid_ranker_search" /\ run[r].pc \in {"select", "print", "done"}) =>
      LET ids      == run[r].document_ids
          contents == run[r].document_contents
      IN  /\ Len(ids) = Cardinality(run[r].rrf_combined)
          /\ Len(contents) = Len(ids)
          /\ Range(ids) = BranchIds(run[r].rrf_combined)
          /\ \A i \in 1..Len(ids) : contents[i] = ids[i]
          /\ \A i \in 1..(Len(ids) - 1) :
               ~RatLess(Val(RowOf(run[r].rrf_combined, ids[i])).rrf_score,
                        Val(RowOf(run[r].rrf_combined, ids[i + 1])).rrf_score)

(* the whitespace-separated terms of the query *)
QueryTerms == Range(Split(search_query))

(* C18: the sparse predicate is the OR of the query's whitespace-separated
   terms: for every query string the tsquery is the terms joined by ' | ', and an
   item receives a keyword_rank only if its text holds at least one of the terms *)
C18_SparsePredicateIsOrOfTerms ==
  \A r \in Runs :
    /\ run[r].tsquery # NULL => ToTsquery(Val(run[r].tsquery)) = QueryTerms
    /\ \A x \in run[r].keyword_search : db.words[x.product_id] \cap QueryTerms # {}

(* run r ended in the exception of a failed embedding call *)
EmbeddingFailed(r) == run[r].error = Some("create_embeddings")

(* run r has computed or printed nothing *)
NothingRanked(r) ==
  /\ run[r].tsquery = NULL
  /\ run[r].base_candidates = {} /\ run[r].vector_search = {}
  /\ run[r].keyword_search = {} /\ run[r].rrf_combined = {} /\ run[r].reranked = {}
  /\ run[r].results = <<>> /\ run[r].closest_items = <<>> /\ run[r].printed = <<>>

(* C19: a failure to embed the query is explicit: the run ends in an error, no
   ranking query is executed after it and no result list is printed; a script
   that embeds its query goes past the embedding only with a vector *)
C19_EmbeddingFailureIsExplicit ==
  \A r \in Runs :
    /\ EmbeddingFailed(r) => (run[r].pc = "error" /\ NothingRanked(r))
    /\ (run[r].script # "keyword_search" /\ run[r].pc \notin {"setup", "create_index", "embed", "error"}) =>
         run[r].embedding # NULL
    /\ run[r].pc = "done" => run[r].error = NULL

(* the embedding call failed on a catalogue that had matching items to return *)
C19_Witness ==
  \E r \in Runs :
    /\ EmbeddingFailed(r)
    /\ Embedded # {}
    /\ Matching(MakeTsquery(search_query)) # {}

(* C20: a run of a search script leaves the datastore unchanged: the items, the
   embeddings, the extensions and the indexes *)
C20_SearchLeavesDatastoreUnchanged == [][db' = db]_vars

(* the statement a run of a script can fail on only when another run is there *)
FailedOnAnotherRun(r) == run[r].error = Some("CREATE INDEX")

(* C21: concurrent runs of the search scripts are independent: no run fails
   because of a step of another run, the CREATE INDEX IF NOT EXISTS statement
   included *)
C21_ConcurrentRunsAreIndependent ==
  \A r \in DOMAIN run : ~FailedOnAnotherRun(r)

(* C22: the count the completion panel of generate_all_product_pages announces
   is the number of product PDFs the run created, whatever products failed *)
C22_AnnouncedIsPagesCreated ==
  (gen # NULL /\ gen.script = "generate_all_product_pages" /\ gen.announced # NULL) =>
    Val(gen.announced) = Len(gen.files)

(* the files written so far hold a document of a product that failed later *)
KeptOfFailed ==
  \E i \in DOMAIN gen.files : gen.files[i].product \in gen.failed

(* C23: in generate_safety_documents pdf_count is len(created_files) after every
   step, every counted file is one create_pdf_document wrote, and the final
   figure is that count, the documents of products that failed later included *)
C23_PdfCountIsCreatedFiles ==
  (gen # NULL /\ gen.script = "generate_safety_documents") =>
    /\ gen.pdf_count = Len(gen.created_files)
    /\ gen.created_files = gen.files
    /\ gen.announced # NULL => Val(gen.announced) = Len(gen.files)

C23_Witness ==
  /\ gen # NULL
  /\ gen.script = "generate_safety_documents"
  /\ gen.pc = "done"
  /\ KeptOfFailed
  /\ Val(gen.announced) >= 2

(* C24: both generators attempt every selected product once and in list order;
   a product's exception never leaves the loop, and a run that got its products
   ends with every product attempted and the completion summary printed *)
C24_FailuresAreIsolated ==
  gen # NULL =>
    /\ Len(gen.processed) <= Len(gen.products)
    /\ gen.processed = SubSeq(gen.products, 1, Len(gen.processed))
    /\ gen.error # Some("product")
    /\ gen.pc \in {"close", "done"} =>
         gen.processed = gen.products /\ gen.announced # NULL

C24_Witness ==
  /\ gen # NULL
  /\ gen.pc = "done"
  /\ Len(gen.products) >= 2
  /\ gen.products[1] \in gen.failed
  /\ gen.products[2] \notin gen.failed

(* the documents whose generation met an API error *)
ApiFailed == IF gen = NULL THEN {} ELSE gen.api_failed

(* the file of a document is there and has the fallback text *)
HasFallback(d) ==
  \E i \in DOMAIN gen.files :
    /\ gen.files[i].product = d[1]
    /\ gen.files[i].kind = d[2]
    /\ \E j \in DOMAIN gen.files[i].content :
         gen.files[i].content[j] \notin {NULL, Some("response")}

(* C25: an error of the chat-completion API never aborts a document: the call
   returns the fallback text and the document's PDF is written with it *)
C25_ApiFailureGivesFallback ==
  \A d \in ApiFailed : HasFallback(d)

C25_Witness ==
  /\ gen # NULL
  /\ gen.pc = "done"
  /\ \E d \in gen.api_failed : HasFallback(d) /\ d[1] \notin gen.failed

(* C27: main of the safety-document generator closes the connection it opened
   before it returns or re-raises *)
C27_ConnectionClosedAtExit ==
  (gen # NULL /\ gen.pc \in {"done", "raised"}) => gen.conn # "open"

(* a run of setup_azure_ai.py has ended *)
SetupExited == setup # NULL /\ setup.runs > 0 /\ setup.pc = "exited"

SummaryPrinted == \E line \in setup.output : line[1] = "summary"

(* C26: on every exit path of setup_azure_ai after the connection was opened
   the cursor and the connection are closed and 'Connection closed.' is
   printed, with exit code 1 after an exception; only the objects that were
   created are closed *)
C26_ConnectionClosedOnEveryExit ==
  (SetupExited /\ setup.conn # "none") =>
    /\ setup.conn = "closed"
    /\ setup.cur # "open"
    /\ <<"closed", "Connection closed.">> \in setup.output
    /\ setup.closed = {"conn"} \cup (IF setup.cur = "none" THEN {} ELSE {"cur"})
    /\ setup.exit_code = (IF setup.error = NULL THEN Some(0) ELSE Some(1))

C26_Witness ==
  /\ SetupExited
  /\ setup.conn = "closed"
  /\ setup.cur = "closed"
  /\ setup.error = Some("psycopg2.Error")

(* C28: after any sequence of runs the stored settings are those of the auth
   modes the latest summary reports: the OpenAI auth type and key follow
   AZURE_OPENAI_KEY, the reranker's stored auth mode is the subscription-key
   mode exactly when its key is given, and the endpoints are stored *)
C28_StoredSettingsMatchSummary ==
  (SetupExited /\ SummaryPrinted) =>
    /\ db.settings["azure_openai.endpoint"] = setup.env.AZURE_OPENAI_ENDPOINT
    /\ IF setup.env.AZURE_OPENAI_KEY # NULL
       THEN /\ db.settings["azure_openai.auth_type"] = Some("subscription-key")
            /\ db.settings["azure_openai.subscription_key"] = setup.env.AZURE_OPENAI_KEY
       ELSE db.settings["azure_openai.auth_type"] = Some("managed-identity")
    /\ setup.env.AZURE_ML_RANKING_ENDPOINT # NULL =>
         /\ db.settings["azure_ml.serverless_ranking_endpoint"] =
              setup.env.AZURE_ML_RANKING_ENDPOINT
         /\ IF setup.env.AZURE_ML_RANKING_KEY # NULL
            THEN /\ db.settings["azure_ml.auth_type"] # Some("managed-identity")
                 /\ db.settings["azure_ml.serverless_ranking_endpoint_key"] =
                      setup.env.AZURE_ML_RANKING_KEY
            ELSE db.settings["azure_ml.auth_type"] = Some("managed-identity")

(* the steps that configure, and the steps that test or list *)
ConfigurationSteps == {"extension", "set_setting", "get_setting"}

TestSteps == {"ranking_settings", "create_embeddings", "rank", "functions"}

(* C29: a run of setup_azure_ai in which a configuration step failed ends with
   exit code 1 and no summary; a run in which only test or listing steps
   failed prints a warning for each, prints the summary and ends with exit
   code 0; a missing required variable ends the run with exit code 1 and no
   connection *)
C29_ConfigurationFailsTestsWarn ==
  SetupExited =>
    /\ setup.failures \cap ConfigurationSteps # {} =>
         setup.exit_code = Some(1) /\ ~SummaryPrinted
    /\ (setup.failures # {} /\ setup.failures \subseteq TestSteps) =>
         /\ setup.exit_code = Some(0)
         /\ SummaryPrinted
         /\ \A step \in setup.failures : <<"warning", step>> \in setup.output
    /\ (setup.env.AZURE_OPENAI_ENDPOINT = NULL \/ setup.env.EMBEDDING_MODEL_DEPLOYMENT = NULL) =>
         setup.exit_code = Some(1) /\ setup.conn = "none" /\ ~SummaryPrinted

C29_Witness ==
  /\ SetupExited
  /\ setup.failures = TestSteps
  /\ SummaryPrinted

====
